---------------------------- MODULE Spec2Model ----------------------------
(***************************************************************************)
(* Model of the two command-line drivers of bppsuite:                      *)
(*   - bppSeqGen.cpp   (readTrees and main): SpecGen                       *)
(*   - bppPopStats.cpp (main):               SpecPop                       *)
(* Strings are modelled as sequences of tokens (one token per character    *)
(* class that the code distinguishes); positions in them are 0-based as in *)
(* the C++ code.                                                           *)
(***************************************************************************)
EXTENDS Integers, Sequences, FiniteSets

VARIABLES
  \* ---- bppSeqGen: readTrees ----
  file,         \* physical lines handed out by FileTools::getNextLine so far
  eof,          \* file.eof()
  line,         \* readTrees: string line
  begin,        \* readTrees: double begin   (in units of 1/Den)
  end,          \* readTrees: double end     (in units of 1/Den)
  index2,       \* readTrees: index2
  index3,       \* readTrees: index3
  previousPos,  \* readTrees: double previousPos
  \* ---- bppSeqGen: main ----
  pcGen,        \* position of main / readTrees
  inputTrees,   \* input.tree.method
  trees,        \* vector<TreeTemplate<Node>*>: each tree is its getLeavesNames()
  positions,    \* vector<double> (in units of 1/Den)
  nhOpt,        \* nonhomogeneous
  infosFile,    \* input.infos
  modelSet,     \* SubstitutionModelSet* modelSet ("NULL", or the option it was built for)
  nbSites,      \* unsigned int nbSites
  seqsim,       \* the simulator instances alive, each named by the 1-based tree it is bound to
  simPrev,      \* main: unsigned int previousPos
  i,            \* main: loop index of the multi-segment loops
  tmpCont1,     \* merged container so far: sequence of per-segment blocks
  tmpCont2,     \* container of the segment just simulated (<<>> when none)
  sites,        \* final alignment handed to writeSequenceFile
  written,      \* files written by the run
  treeWIdPath,  \* main: string treeWIdPath (output.tree.path; "" while not read)
  treeFile,     \* the tree written to treeWIdPath: leaf names and NodeId tags
  what,         \* e.what() of the exception caught ("" if none)
  exitCode,     \* process exit status (-2: still running)
  \* ---- bppPopStats: main ----
  params,       \* bpppopstats.getParams() and the alignment files they name
  pcPop,        \* position of main
  logFile,      \* string logFile
  cLog,         \* lines written to the log file
  console,      \* lines written to the console
  toolCounter,  \* map<string, unsigned int> toolCounter
  codonAlphabet,\* CodonAlphabet* codonAlphabet (non-null)
  gCode,        \* unique_ptr<GeneticCode> gCode (non-null)
  psc,          \* unique_ptr<PolymorphismSequenceContainer> psc
  pscIn,        \* shared_ptr<PolymorphismSequenceContainer> pscIn
  pscOut,       \* shared_ptr<PolymorphismSequenceContainer> pscOut
  actions,      \* the tokens of pop.stats dispatched so far
  calls,        \* SequenceStatistics / CodonSiteTools estimators called so far
  outFiles,     \* files written by CodonSiteStatistics
  popExit       \* exit status of main (-2: still running)

rtVars  == <<file, eof, line, begin, end, index2, index3, previousPos>>
simVars == <<seqsim, simPrev, i, tmpCont1, tmpCont2, sites>>
genVars == <<rtVars, pcGen, inputTrees, trees, positions, nhOpt, infosFile,
             modelSet, nbSites, simVars, written, treeWIdPath, treeFile,
             what, exitCode>>
popVars == <<params, pcPop, logFile, cLog, console, toolCounter, codonAlphabet,
             gCode, psc, pscIn, pscOut, actions, calls, outFiles, popExit>>
vars    == <<genVars, popVars>>

-----------------------------------------------------------------------------
(* Bounds *)
MaxLines == 3      \* physical lines in a tree file
MaxSites == 3      \* number_of_sites / rows of the rate file
MaxActions == 2    \* tokens of pop.stats
MaxPopSites == 1   \* columns of the popstats alignment
MaxStopSites == 2  \* columns of the popstats alignment under the stop-codon policies
MaxTagged == 2     \* entries of the outgroup index list and of the outgroup name list

(* Program constants *)
npos == 2147483647        \* string::npos: larger than any string length
UIntModulus == 65536      \* range of unsigned int (width reduced to 16 bits)
Den == 2                  \* positions are multiples of 1/Den: "0", "0.5", "1"

Min(a, b) == IF a <= b THEN a ELSE b

-----------------------------------------------------------------------------
(* Text helpers *)

WhiteSpace == {"sp", "tab"}
NumText    == {"0", "0.5", "1"}
LeafNames  == {"a", "b", "c"}

\* TextTools::toDouble on the number texts of the model, in units of 1/Den.
ToDouble(s) ==
  IF Len(s) = 1 /\ s[1] = "0.5" THEN 1
  ELSE IF Len(s) = 1 /\ s[1] = "1" THEN 2
  ELSE 0

\* std::string::find_first_of(chars, pos)
FindFirstOf(s, chars, pos) ==
  LET hits == {k \in 0..(Len(s) - 1) : k >= pos /\ s[k + 1] \in chars}
  IN  IF hits = {} THEN npos
      ELSE CHOOSE k \in hits : \A h \in hits : k <= h

\* std::string::substr(pos, count)
Substr(s, pos, count) == SubSeq(s, pos + 1, Min(pos + count, Len(s)))

\* std::string::substr(pos)
SubstrFrom(s, pos) == SubSeq(s, pos + 1, Len(s))

\* TextTools::removeSurroundingWhiteSpaces
RECURSIVE RemoveSurroundingWhiteSpaces(_)
RemoveSurroundingWhiteSpaces(s) ==
  IF s = <<>> THEN s
  ELSE IF s[1] \in WhiteSpace THEN RemoveSurroundingWhiteSpaces(Tail(s))
  ELSE IF s[Len(s)] \in WhiteSpace
       THEN RemoveSurroundingWhiteSpaces(SubSeq(s, 1, Len(s) - 1))
  ELSE s

IsLeafName(c) == c \in LeafNames

\* TreeTemplateTools::parenthesisToTree(newickStr)->getLeavesNames()
LeavesNames(newickStr) == SelectSeq(newickStr, IsLeafName)

\* number of occurrences of x in vector v
Occurrences(v, x) == Cardinality({k \in 1..Len(v) : v[k] = x})

HaveSameLength(v1, v2) == Len(v1) = Len(v2)

\* VectorTools::haveSameElements: equal after sorting, i.e. equal as multisets
HaveSameElements(v1, v2) ==
  /\ Len(v1) = Len(v2)
  /\ \A x \in LeafNames : Occurrences(v1, x) = Occurrences(v2, x)


-----------------------------------------------------------------------------
(* Input domain of bppSeqGen *)

\* Newick texts of the trees an input may hold
TreeTexts ==
  { <<"(", "a", ",", "b", ")">>,
    <<"(", "b", ",", "a", ")">>,
    <<"(", "a", ",", "c", ")">> }

\* "<begin> <end> <tree>;" on one physical line
FullLines ==
  { <<b, "sp", e, "sp">> \o t \o <<";">> : b \in NumText, e \in NumText, t \in TreeTexts }

\* "<begin> <end> (a," : an entry whose tree continues on the next physical line
HeadLines == { <<b, "sp", e, "sp", "(", "a", ",">> : b \in NumText, e \in NumText }

\* the end of a tree started on an earlier physical line
TailLines == { <<"b", ")", ";">> }

\* a comment, a line with no blank at all, a line with a single blank
OtherLines == { <<"#">>, <<"0">>, <<"0", "sp", "1">> }

Lines == FullLines \cup HeadLines \cup TailLines \cup OtherLines

TreeMethods == {"single", "multiple", "other"}
NhOptions   == {"no", "one_per_branch", "general", "other"}
FilePaths   == {"none", "path"}

ErrNoBegin    == "Error when parsing tree file: now begining position."
ErrNoEnd      == "Error when parsing tree file: now ending position."
ErrIncomplete == "Error when parsing tree file: incomplete tree."
ErrLeaves     == "Error: all trees must have the same leaf names."
ErrSegments   == "Error when parsing tree file: segments do not match"
ErrMethod     == "Unknown input.tree.method option"
ErrMultipleNH == "Multiple input trees cannot be used with non-homogeneous simulations."
ErrNhOpt      == "Unknown non-homogeneous option"
ErrLength     == "std::length_error"

-----------------------------------------------------------------------------
(* bppSeqGen: the state when main starts *)

\* a tree as Newick::write puts it to a file: the names of its leaves and the
\* NodeId property of its inner nodes
TreeFile(leaves, nodeIds) == [leaves |-> leaves, nodeIds |-> nodeIds]

NoTree == TreeFile(<<>>, {})

GenInitial ==
  /\ file = <<>> /\ eof = FALSE /\ line = <<>>
  /\ begin = 0 /\ end = 0 /\ index2 = 0 /\ index3 = 0 /\ previousPos = 0
  /\ pcGen = "start"
  /\ inputTrees = "" /\ trees = <<>> /\ positions = <<>>
  /\ nhOpt = "" /\ infosFile = "" /\ modelSet = "NULL" /\ nbSites = 0
  /\ seqsim = {} /\ simPrev = 0 /\ i = 0
  /\ tmpCont1 = <<>> /\ tmpCont2 = <<>> /\ sites = <<>>
  /\ written = {} /\ treeWIdPath = "" /\ treeFile = NoTree
  /\ what = "" /\ exitCode = -2

\* catch(exception& e) { cout << e.what() << endl; exit(-1); }
GenThrow(msg) ==
  /\ what' = msg
  /\ exitCode' = -1
  /\ pcGen' = "exit"

-----------------------------------------------------------------------------
(* bppSeqGen: readTrees *)

SegmentsNotBefore(b, prev) == b >= prev

\* line 112: the segment's begin against the previous segment's end
SegmentsMatch(b, prev) == b = prev

\* line 101: index3 = line.find_first_of(";", index3), with index3 == npos
ContinuationIndex3(ln, i3) == FindFirstOf(ln, {";"}, i3)

\* lines 103-116: the entry is complete, index3 is the place of its ';'
FinishSegment(ln, b, e, i2, i3) ==
  LET newickStr == Substr(ln, i2 + 1, i3 - i2)
      t         == LeavesNames(newickStr)
  IN  /\ begin' = b /\ end' = e /\ index2' = i2 /\ index3' = i3
      /\ IF Len(trees) > 0 /\ ~HaveSameElements(t, trees[Len(trees)])
         THEN /\ GenThrow(ErrLeaves)
              /\ line' = ln
              /\ UNCHANGED <<trees, positions, previousPos>>
         ELSE /\ trees' = Append(trees, t)
              /\ IF ~SegmentsMatch(b, previousPos)
                 THEN /\ GenThrow(ErrSegments)
                      /\ line' = ln
                      /\ UNCHANGED <<positions, previousPos>>
                 ELSE /\ positions' = Append(positions, e)
                      /\ previousPos' = e
                      /\ line' = SubstrFrom(ln, i3 + 1)
                      /\ pcGen' = "readTrees"
                      /\ UNCHANGED <<what, exitCode>>

\* lines 84-96 (and 103-116 when the ';' is on the line): one turn of the outer loop
\* on the next physical line l
ReadTreesLine(l) ==
  LET tmp == RemoveSurroundingWhiteSpaces(l)
      ln  == line \o tmp
      i1  == FindFirstOf(ln, WhiteSpace, 0)
      i2  == FindFirstOf(ln, WhiteSpace, i1 + 1)
      b   == ToDouble(Substr(ln, 0, i1))
      e   == ToDouble(Substr(ln, i1 + 1, i2 - i1 - 1))
      i3  == FindFirstOf(ln, {";"}, i2 + 1)
  IN  IF tmp = <<>> \/ tmp[1] = "#"
      THEN UNCHANGED <<line, begin, end, index2, index3, previousPos,
                       pcGen, trees, positions, what, exitCode>>
      ELSE IF i1 = npos
      THEN /\ GenThrow(ErrNoBegin) /\ line' = ln
           /\ UNCHANGED <<begin, end, index2, index3, previousPos, trees, positions>>
      ELSE IF i2 = npos
      THEN /\ GenThrow(ErrNoEnd) /\ line' = ln
           /\ UNCHANGED <<begin, end, index2, index3, previousPos, trees, positions>>
      ELSE IF i3 = npos
      THEN /\ pcGen' = "readTreesCont"
           /\ line' = ln /\ begin' = b /\ end' = e /\ index2' = i2 /\ index3' = i3
           /\ UNCHANGED <<previousPos, trees, positions, what, exitCode>>
      ELSE FinishSegment(ln, b, e, i2, i3)

\* while(!file.eof()): the next physical line is read
GenReadLine ==
  /\ pcGen = "readTrees" /\ ~eof
  /\ Len(file) < MaxLines
  /\ \E l \in Lines :
       /\ file' = Append(file, l)
       /\ eof' = FALSE
       /\ ReadTreesLine(l)
  /\ UNCHANGED <<inputTrees, nhOpt, infosFile, nbSites, simVars, written>>
  /\ UNCHANGED modelSet
  /\ UNCHANGED <<treeWIdPath, treeFile>>
  /\ UNCHANGED popVars

\* while(!file.eof()): getNextLine meets the end of the file and returns ""
GenReadEnd ==
  /\ pcGen = "readTrees" /\ ~eof
  /\ eof' = TRUE
  /\ UNCHANGED <<file, line, begin, end, index2, index3, previousPos, pcGen,
                 inputTrees, trees, positions, nhOpt, infosFile, nbSites,
                 simVars, written, what, exitCode>>
  /\ UNCHANGED modelSet
  /\ UNCHANGED <<treeWIdPath, treeFile>>
  /\ UNCHANGED popVars

\* lines 97-102: one turn of the inner loop, index3 == npos
ReadTreesCont(l) ==
  LET ln == line \o l
      i3 == ContinuationIndex3(ln, index3)
  IN  IF i3 = npos
      THEN /\ line' = ln /\ index3' = i3
           /\ UNCHANGED <<begin, end, index2, previousPos, pcGen, trees,
                          positions, what, exitCode>>
      ELSE FinishSegment(ln, begin, end, index2, i3)

GenContLine ==
  /\ pcGen = "readTreesCont" /\ ~eof
  /\ Len(file) < MaxLines
  /\ \E l \in Lines :
       /\ file' = Append(file, l)
       /\ eof' = FALSE
       /\ ReadTreesCont(l)
  /\ UNCHANGED <<inputTrees, nhOpt, infosFile, nbSites, simVars, written>>
  /\ UNCHANGED modelSet
  /\ UNCHANGED <<treeWIdPath, treeFile>>
  /\ UNCHANGED popVars

\* inner loop: getNextLine meets the end of the file and returns ""
GenContEnd ==
  /\ pcGen = "readTreesCont" /\ ~eof
  /\ eof' = TRUE
  /\ ReadTreesCont(<<>>)
  /\ UNCHANGED <<file, inputTrees, nhOpt, infosFile, nbSites, simVars, written>>
  /\ UNCHANGED modelSet
  /\ UNCHANGED <<treeWIdPath, treeFile>>
  /\ UNCHANGED popVars

\* line 99: if(file.eof()) throw Exception(... incomplete tree.)
GenContEof ==
  /\ pcGen = "readTreesCont" /\ eof
  /\ GenThrow(ErrIncomplete)
  /\ UNCHANGED <<rtVars, inputTrees, trees, positions, nhOpt, infosFile,
                 nbSites, simVars, written>>
  /\ UNCHANGED modelSet
  /\ UNCHANGED <<treeWIdPath, treeFile>>
  /\ UNCHANGED popVars

\* the outer loop ends, readTrees returns to main (line 215)
GenReadTreesReturn ==
  /\ pcGen = "readTrees" /\ eof
  /\ pcGen' = "model"
  /\ UNCHANGED <<rtVars, inputTrees, trees, positions, nhOpt, infosFile,
                 nbSites, simVars, written, what, exitCode>>
  /\ UNCHANGED modelSet
  /\ UNCHANGED <<treeWIdPath, treeFile>>
  /\ UNCHANGED popVars

-----------------------------------------------------------------------------
(* bppSeqGen: main *)

\* a crash of the process (undefined behaviour that ends in a fault): no message
GenCrash ==
  /\ what' = ""
  /\ exitCode' = 139
  /\ pcGen' = "exit"

\* TextTools::toString(unsigned int): the decimal digits
RECURSIVE ToString(_)
ToString(n) ==
  LET digit(d) == <<"0", "1", "2", "3", "4", "5", "6", "7", "8", "9">>[d + 1]
  IN  IF n < 10 THEN <<digit(n)>>
      ELSE ToString(n \div 10) \o <<digit(n % 10)>>

\* the characters of a sequence of one-character texts, as one string
RECURSIVE Join(_)
Join(q) == IF q = <<>> THEN "" ELSE Head(q) \o Join(Tail(q))

NameKept(id, name) == name

\* line 197: TextTools::toString(nodes[i]->getId()) + "_" + nodes[i]->getName()
TaggedName(id, name) == Join(ToString(id)) \o "_" \o name

\* the ids of the nodes of a tree with the given leaves: the leaves are numbered
\* from 0 in their order, the inner node (the root) comes after them
LeafId(k) == k - 1
InnerIds(leaves) == {Len(leaves)}

\* lines 193-200: every leaf is renamed, every inner node gets its NodeId
TagTree(leaves) ==
  TreeFile([k \in DOMAIN leaves |-> TaggedName(LeafId(k), leaves[k])], InnerIds(leaves))

\* lines 182-217: input.tree.method
GenStart ==
  /\ pcGen = "start"
  /\ \E m \in TreeMethods :
       /\ inputTrees' = m
       /\ IF m = "single"
          THEN \E t \in TreeTexts, path \in FilePaths :
                 /\ treeWIdPath' = path
                 /\ positions' = <<0, Den>>
                 /\ IF path # "none"
                    THEN /\ trees' = <<TagTree(LeavesNames(t)).leaves>>
                         /\ treeFile' = TagTree(LeavesNames(t))
                         /\ written' = written \cup {"output.tree.path"}
                         /\ pcGen' = "exit"
                         /\ exitCode' = 0
                         /\ UNCHANGED what
                    ELSE /\ trees' = <<LeavesNames(t)>>
                         /\ pcGen' = "model"
                         /\ UNCHANGED <<treeFile, written, what, exitCode>>
          ELSE IF m = "multiple"
          THEN /\ positions' = <<0>>
               /\ pcGen' = "readTrees"
               /\ UNCHANGED <<trees, written, treeWIdPath, treeFile, what, exitCode>>
          ELSE /\ GenThrow(ErrMethod)
               /\ UNCHANGED <<trees, positions, written, treeWIdPath, treeFile>>
  /\ UNCHANGED <<rtVars, nhOpt, infosFile, nbSites, simVars>>
  /\ UNCHANGED modelSet
  /\ UNCHANGED popVars

MultipleTreesAllowed(method) == FALSE

\* lines 237, 255: if(inputTrees == "multiple") throw
MultipleTrees(method) == method = "multiple"

\* lines 219-259: input.infos and nonhomogeneous
GenModel ==
  /\ pcGen = "model"
  /\ \E inf \in FilePaths, nh \in NhOptions :
       /\ infosFile' = inf
       /\ nhOpt' = nh
       /\ IF nh = "no"
          THEN IF Len(trees) = 0
               THEN GenCrash /\ UNCHANGED modelSet    \* trees[0] of an empty vector
               ELSE /\ modelSet' = nh
                    /\ pcGen' = "simulate"
                    /\ UNCHANGED <<what, exitCode>>
          ELSE IF nh \in {"one_per_branch", "general"}
          THEN IF MultipleTrees(inputTrees)
               THEN GenThrow(ErrMultipleNH) /\ UNCHANGED modelSet
               ELSE /\ modelSet' = nh
                    /\ pcGen' = "simulate"
                    /\ UNCHANGED <<what, exitCode>>
          ELSE GenThrow(ErrNhOpt) /\ UNCHANGED modelSet
  /\ UNCHANGED <<rtVars, inputTrees, trees, positions, nbSites, simVars, written>>
  /\ UNCHANGED <<treeWIdPath, treeFile>>
  /\ UNCHANGED popVars

\* (unsigned int)round(positions[k] * (double)nbSites), p in units of 1/Den
RoundPos(p, n) == (2 * p * n + Den) \div (2 * Den)

\* unsigned int subtraction currentPos - previousPos
USub(a, b) == (a - b) % UIntModulus

\* one simulated container: the tree it was simulated on, the number of sites
\* asked of the simulator,
\* and the rows of the rate file its columns were drawn with (<<>> without rates)
Block(t, n, r) == [tree |-> t, nsites |-> n, rates |-> r]

\* rows (1-based) of vector<double>(rates.begin() + first, rates.begin() + last)
RateRows(first, last) == [k \in 1..(last - first) |-> first + k]

RateSliceValid(first, last, n) == 0 <= first /\ first <= last /\ last <= n

\* line 302: rates.begin() + previousPos + 1
NextSliceStart(prev) == prev + 1

\* lines 344-345, 353-354: number of sites simulated for a segment ending at p
SegmentSites(p, n, prev) == USub(RoundPos(p, n), prev)

\* what a rate slice [first, last) of a vector of n rates gives: the block, or,
\* for an invalid range (undefined behaviour), a length_error or a fault
SliceOutcomes(t, first, last, n) ==
  IF RateSliceValid(first, last, n)
  THEN {[outcome |-> "ok", block |-> Block(t, last - first, RateRows(first, last))]}
  ELSE {[outcome |-> o, block |-> Block(t, 0, <<>>)] : o \in {"length_error", "fault"}}

\* seqsim = new NonHomogeneousSequenceSimulator(modelSet, rDist, trees[t - 1])
NewSimulator(live, t) == live \cup {t}

SimulatorKept(live, t) == live

\* delete seqsim, seqsim being the instance bound to tree t
DeleteSimulator(live, t) == live \ {t}

\* lines 264-295 and 329-347: the site count is read, the first (or only)
\* simulator is created and run
GenSimulateFirst ==
  /\ pcGen = "simulate"
  /\ \E n \in 0..MaxSites :
       /\ nbSites' = n
       /\ IF Len(trees) = 0
          THEN /\ GenCrash                       \* trees[0] of an empty vector
               /\ UNCHANGED <<seqsim, simPrev, tmpCont1, sites>>
          ELSE IF Len(trees) = 1
          THEN /\ sites' = <<Block(1, n, IF infosFile # "none" THEN RateRows(0, n) ELSE <<>>)>>
               /\ seqsim' = IF infosFile # "none"                \* line 283: delete seqsim
                            THEN DeleteSimulator(NewSimulator(seqsim, 1), 1)
                            ELSE NewSimulator(seqsim, 1)
               /\ pcGen' = "write"
               /\ UNCHANGED <<simPrev, tmpCont1, what, exitCode>>
          ELSE LET currentPos == RoundPos(positions[2], n)
               IN  IF infosFile # "none"
                   THEN \E o \in SliceOutcomes(1, 0, currentPos, n) :
                          IF o.outcome = "length_error"
                          THEN /\ GenThrow(ErrLength)
                               /\ seqsim' = NewSimulator(seqsim, 1)
                               /\ UNCHANGED <<simPrev, tmpCont1, sites>>
                          ELSE IF o.outcome = "fault"
                          THEN /\ GenCrash
                               /\ seqsim' = NewSimulator(seqsim, 1)
                               /\ UNCHANGED <<simPrev, tmpCont1, sites>>
                          ELSE /\ tmpCont1' = <<o.block>>
                               /\ seqsim' = NewSimulator(seqsim, 1)
                               /\ simPrev' = currentPos
                               /\ pcGen' = "deleteFirst"
                               /\ UNCHANGED <<sites, what, exitCode>>
                   ELSE /\ tmpCont1' = <<Block(1, SegmentSites(positions[2], n, 0), <<>>)>>
                        /\ seqsim' = NewSimulator(seqsim, 1)
                        /\ simPrev' = currentPos
                        /\ pcGen' = "deleteFirst"
                        /\ UNCHANGED <<sites, what, exitCode>>
  /\ UNCHANGED <<rtVars, inputTrees, trees, positions, nhOpt, infosFile, i,
                 tmpCont2, written>>
  /\ UNCHANGED modelSet
  /\ UNCHANGED <<treeWIdPath, treeFile>>
  /\ UNCHANGED popVars

\* lines 295 / 347: delete seqsim; the loop starts at i = 1
GenDeleteFirst ==
  /\ pcGen = "deleteFirst"
  /\ seqsim' = DeleteSimulator(seqsim, 1)
  /\ i' = 1
  /\ pcGen' = "loop"
  /\ UNCHANGED <<rtVars, inputTrees, trees, positions, nhOpt, infosFile, nbSites,
                 simPrev, tmpCont1, tmpCont2, sites, written, what, exitCode>>
  /\ UNCHANGED modelSet
  /\ UNCHANGED <<treeWIdPath, treeFile>>
  /\ UNCHANGED popVars

\* lines 299-304 / 351-355: the simulator of segment i is created and run
GenSimulateNext ==
  /\ pcGen = "loop" /\ i < Len(trees)
  /\ LET currentPos == RoundPos(positions[i + 2], nbSites)
     IN  IF infosFile # "none"
         THEN \E o \in SliceOutcomes(i + 1, NextSliceStart(simPrev), currentPos, nbSites) :
                IF o.outcome = "length_error"
                THEN /\ GenThrow(ErrLength)
                     /\ seqsim' = NewSimulator(seqsim, i + 1)
                     /\ UNCHANGED <<simPrev, tmpCont2>>
                ELSE IF o.outcome = "fault"
                THEN /\ GenCrash
                     /\ seqsim' = NewSimulator(seqsim, i + 1)
                     /\ UNCHANGED <<simPrev, tmpCont2>>
                ELSE /\ tmpCont2' = <<o.block>>
                     /\ seqsim' = NewSimulator(seqsim, i + 1)
                     /\ simPrev' = currentPos
                     /\ pcGen' = "merge"
                     /\ UNCHANGED <<what, exitCode>>
         ELSE /\ tmpCont2' = <<Block(i + 1, SegmentSites(positions[i + 2], nbSites, simPrev), <<>>)>>
              /\ seqsim' = NewSimulator(seqsim, i + 1)
              /\ simPrev' = currentPos
              /\ pcGen' = "merge"
              /\ UNCHANGED <<what, exitCode>>
  /\ UNCHANGED <<rtVars, inputTrees, trees, positions, nhOpt, infosFile, nbSites,
                 i, tmpCont1, sites, written>>
  /\ UNCHANGED modelSet
  /\ UNCHANGED <<treeWIdPath, treeFile>>
  /\ UNCHANGED popVars

\* lines 305-310 / 356-361: delete seqsim; merge tmpCont1 and tmpCont2
GenMerge ==
  /\ pcGen = "merge"
  /\ seqsim' = DeleteSimulator(seqsim, i + 1)
  /\ tmpCont1' = tmpCont1 \o tmpCont2
  /\ tmpCont2' = <<>>
  /\ i' = i + 1
  /\ pcGen' = "loop"
  /\ UNCHANGED <<rtVars, inputTrees, trees, positions, nhOpt, infosFile, nbSites,
                 simPrev, sites, written, what, exitCode>>
  /\ UNCHANGED modelSet
  /\ UNCHANGED <<treeWIdPath, treeFile>>
  /\ UNCHANGED popVars

\* lines 312-313 / 363-365: the loop ends, sites = VectorSiteContainer(*tmpCont1)
GenLoopEnd ==
  /\ pcGen = "loop" /\ ~(i < Len(trees))
  /\ sites' = tmpCont1
  /\ tmpCont1' = <<>>
  /\ pcGen' = "write"
  /\ UNCHANGED <<rtVars, inputTrees, trees, positions, nhOpt, infosFile, nbSites,
                 seqsim, simPrev, i, tmpCont2, written, what, exitCode>>
  /\ UNCHANGED modelSet
  /\ UNCHANGED <<treeWIdPath, treeFile>>
  /\ UNCHANGED popVars

\* lines 369-386: writeSequenceFile, return 0
GenWrite ==
  /\ pcGen = "write"
  /\ written' = written \cup {"output.sequence.file"}
  /\ pcGen' = "exit"
  /\ exitCode' = 0
  /\ UNCHANGED <<rtVars, inputTrees, trees, positions, nhOpt, infosFile, nbSites,
                 simVars, what>>
  /\ UNCHANGED modelSet
  /\ UNCHANGED <<treeWIdPath, treeFile>>
  /\ UNCHANGED popVars

-----------------------------------------------------------------------------
(* bppPopStats: containers and the library calls made on them *)

\* a PolymorphismSequenceContainer behind a smart pointer (null: the pointer is empty)
NullContainer == [null |-> TRUE, seqs |-> <<>>, sites |-> <<>>]

Container(seqs, columns) == [null |-> FALSE, seqs |-> seqs, sites |-> columns]

\* one sequence of a container: its name and its outgroup flag
Sequence(name, og) == [name |-> name, outgroup |-> og]

\* one alignment column: polymorphic among the ingroup sequences, synonymous
\* polymorphism, contains a stop codon
Site(poly, syn, stop) == [poly |-> poly, syn |-> syn, stop |-> stop]

IsPolymorphic(st) == st.poly
IsSynonymous(st) == st.syn
IsNonSynonymous(st) == ~st.syn
HasNoStop(st) == ~st.stop
IsOutgroup(sq) == sq.outgroup
IsIngroup(sq) == ~sq.outgroup

\* SequenceStatistics::numberOfPolymorphicSites
NumberOfPolymorphicSites(c) == Len(SelectSeq(c.sites, IsPolymorphic))

\* PolymorphismSequenceContainerTools::getSynonymousSites / getNonSynonymousSites
GetSynonymousSites(c) == [c EXCEPT !.sites = SelectSeq(c.sites, IsSynonymous)]
GetNonSynonymousSites(c) == [c EXCEPT !.sites = SelectSeq(c.sites, IsNonSynonymous)]

\* PolymorphismSequenceContainer::hasOutgroup, extractIngroup, extractOutgroup
HasOutgroup(c) == \E k \in DOMAIN c.seqs : c.seqs[k].outgroup
ExtractIngroup(c) == [c EXCEPT !.seqs = SelectSeq(c.seqs, IsIngroup)]
ExtractOutgroup(c) == [c EXCEPT !.seqs = SelectSeq(c.seqs, IsOutgroup)]

-----------------------------------------------------------------------------
(* bppPopStats: inputs *)

CmdNames == {"SiteFrequencies", "Watterson75", "Tajima83", "TajimaD",
             "FuAndLiDStar", "FuAndLiFStar", "PiN_PiS", "MKT",
             "CodonSiteStatistics", "Foo"}

\* one token of pop.stats after KeyvalTools::parseProcedure: the command name and
\* the keyword arguments the commands read (absent arguments at their defaults)
Token(name, pos, totMut, out) ==
  [cmdName |-> name, positions |-> pos, tot_mut |-> totMut, outputFile |-> out]

Tokens ==
  { Token(n, "all", TRUE, "none") :
      n \in {"SiteFrequencies", "Watterson75", "Tajima83", "PiN_PiS", "MKT", "Foo"} }
  \cup { Token("TajimaD", pos, TRUE, "none") :
           pos \in {"all", "synonymous", "non-synonymous", "other"} }
  \cup { Token(n, "all", tm, "none") :
           n \in {"FuAndLiDStar", "FuAndLiFStar"}, tm \in BOOLEAN }
  \cup { Token("CodonSiteStatistics", "all", TRUE, out) : out \in FilePaths }

SeqsUpTo(S, n) == UNION { [1..k -> S] : k \in 0..n }

\* the columns an alignment over the alphabet may hold (no stop codons)
Columns(alphabet) ==
  IF alphabet = "Codon"
  THEN {Site(FALSE, FALSE, FALSE), Site(TRUE, TRUE, FALSE), Site(TRUE, FALSE, FALSE)}
  ELSE {Site(FALSE, FALSE, FALSE), Site(TRUE, FALSE, FALSE)}

\* the ways the input names its sequences and its outgroup
Params(alphabet, logfile, ingroupFile, seqsIn, outgroupFile, seqsOut, index, name, columns, stopCodons) ==
  [alphabet |-> alphabet, logfile |-> logfile,
   ingroupFile |-> ingroupFile, seqsIn |-> seqsIn,
   outgroupFile |-> outgroupFile, seqsOut |-> seqsOut,
   outgroupIndex |-> index, outgroupName |-> name,
   sites |-> columns, stopCodons |-> stopCodons]

\* inputs of the action dispatcher: every alphabet, log file or none, an outgroup
\* given by file, by index, by name, or no outgroup at all; stop codons kept
DispatchParams ==
  { q \in { Params(al, lg, src[1], src[2], src[3], src[4], src[5], src[6], cols, "Keep") :
              al \in {"Codon", "DNA"}, lg \in FilePaths,
              src \in { <<FALSE, <<"s1", "s2">>, FALSE, <<>>, <<>>, <<>> >>,
                        <<FALSE, <<"s1", "s2">>, FALSE, <<>>, <<2>>, <<>> >>,
                        <<FALSE, <<"s1", "s2">>, FALSE, <<>>, <<>>, <<"s2">> >>,
                        <<TRUE,  <<"s1">>,       TRUE,  <<"s2">>, <<>>, <<>> >>,
                        <<TRUE,  <<"s1", "s2">>, FALSE, <<>>, <<>>, <<>> >> },
              cols \in SeqsUpTo(Columns("Codon"), MaxPopSites) } :
      \A k \in DOMAIN q.sites : q.sites[k] \in Columns(q.alphabet) }

\* inputs of the assembler: one alignment file or an ingroup file, with or without
\* an outgroup file, every index list (0 and 4 are outside the alignment) and
\* every name list ("zz" names no sequence) of up to MaxTagged entries
AssembleParams ==
  { Params("Codon", "none", inFile, <<"s1", "s2", "s3">>, outFile,
           IF outFile THEN <<"o1", "o2">> ELSE <<>>, index, name, <<>>, "Keep") :
      inFile \in BOOLEAN, outFile \in BOOLEAN,
      index \in SeqsUpTo(0..4, MaxTagged),
      name \in SeqsUpTo({"s1", "s2", "s3", "zz"}, MaxTagged) }

StopPolicies == {"Keep", "RemoveIfLast", "RemoveAll", "other"}

\* the columns of an alignment that may hold stop codons
StopColumns(alphabet) ==
  IF alphabet = "Codon"
  THEN {Site(FALSE, FALSE, FALSE), Site(FALSE, FALSE, TRUE)}
  ELSE {Site(FALSE, FALSE, FALSE)}

\* inputs of the stop-codon policies: every alphabet, log file or none, every
\* policy value, alignments with and without stop codons, one outgroup sequence
StopParams ==
  { q \in { Params(al, lg, FALSE, <<"s1", "s2">>, FALSE, <<>>, <<2>>, <<>>, cols, pol) :
              al \in {"Codon", "DNA"}, lg \in FilePaths, pol \in StopPolicies,
              cols \in SeqsUpTo(StopColumns("Codon"), MaxStopSites) } :
      \A k \in DOMAIN q.sites : q.sites[k] \in StopColumns(q.alphabet) }

-----------------------------------------------------------------------------
(* bppPopStats: output lines and the ways an action ends *)

\* ApplicationTools::displayResult / displayMessage / cout
ConsoleLine(label, value) == [label |-> label, value |-> value]

\* "# text" in the log file
CommentLine(text) == [kind |-> "comment", name |-> <<>>, value |-> <<text>>]

ErrorLineUnprefixed(msg) == [kind |-> "comment", name |-> <<>>, value |-> <<msg>>]

\* "# Error: message" in the log file
ErrorLine(msg) == [kind |-> "comment", name |-> <<>>, value |-> <<"Error:", msg>>]

\* "# Info: discarded <n> sites with stop codons." in the log file
InfoLine(n) == [kind |-> "comment", name |-> <<>>, value |-> <<"Info: discarded">> \o n]

\* "name = value" in the log file
VarLine(name, value) == [kind |-> "var", name |-> name, value |-> value]

SuffixAlwaysEmpty(count) == <<>>

\* (toolCounter[cmdName] > 1 ? TextTools::toString(toolCounter[cmdName]) : "")
Suffix(count) == IF count > 1 THEN ToString(count) ELSE <<>>

\* the log variable name written for base name `base` by the count-th occurrence
LogVar(base, count) == <<base>> \o Suffix(count)

\* an action ends normally: estimators called, lines written
PopResult(newCalls, newConsole, newLog) ==
  /\ calls' = calls \o newCalls
  /\ console' = console \o newConsole
  /\ cLog' = IF logFile # "none" THEN cLog \o newLog ELSE cLog
  /\ pcPop' = "actions"
  /\ UNCHANGED <<outFiles, popExit>>

\* lines 411-417: catch (exception& e)
PopThrow(msg) ==
  /\ cLog' = IF logFile # "none" THEN Append(cLog, ErrorLine(msg)) ELSE cLog
  /\ console' = Append(console, ConsoleLine("", <<msg>>))
  /\ popExit' = 1
  /\ pcPop' = "exit"
  /\ UNCHANGED <<calls, outFiles>>

\* the process ends in a fault (a null pointer is dereferenced)
PopFault ==
  /\ popExit' = 139
  /\ pcPop' = "exit"
  /\ UNCHANGED <<cLog, console, calls>>

-----------------------------------------------------------------------------
(* bppPopStats: main up to the action loop *)

PopInitial ==
  /\ pcPop = "start"
  /\ logFile = "" /\ cLog = <<>> /\ console = <<>>
  /\ toolCounter = [n \in CmdNames |-> 0]
  /\ codonAlphabet = FALSE /\ gCode = FALSE
  /\ psc = NullContainer /\ pscIn = NullContainer /\ pscOut = NullContainer
  /\ actions = <<>> /\ calls = <<>> /\ outFiles = <<>>
  /\ popExit = -2

\* lines 95-115: the log file, the alphabet, the genetic code
PopStart ==
  /\ pcPop = "start"
  /\ logFile' = params.logfile
  /\ codonAlphabet' = (params.alphabet = "Codon")
  /\ gCode' = (params.alphabet = "Codon")
  /\ pcPop' = "assemble"
  /\ UNCHANGED <<params, cLog, console, toolCounter, psc, pscIn, pscOut, actions,
                 calls, outFiles, popExit>>
  /\ UNCHANGED genVars

PositionAsGiven(g) == g

\* line 137: g - 1, the 0-based position of the g-th sequence
Position(g) == g - 1

\* psc->setAsOutgroupMember(g - 1) for each g of the index list; ok is false when
\* an index is outside the container (the library throws)
RECURSIVE TagByIndex(_, _)
TagByIndex(c, outgroups) ==
  IF outgroups = <<>> THEN [ok |-> TRUE, c |-> c]
  ELSE LET at == Position(Head(outgroups))
       IN  IF at < 0 \/ at >= Len(c.seqs)
           THEN [ok |-> FALSE, c |-> c]
           ELSE TagByIndex([c EXCEPT !.seqs[at + 1].outgroup = TRUE], Tail(outgroups))

\* psc->setAsOutgroupMember(g) for each name g of the name list; ok is false when
\* no sequence has the name (the library throws)
RECURSIVE TagByName(_, _)
TagByName(c, outgroups) ==
  IF outgroups = <<>> THEN [ok |-> TRUE, c |-> c]
  ELSE LET g == Head(outgroups)
       IN  IF ~(\E k \in DOMAIN c.seqs : c.seqs[k].name = g)
           THEN [ok |-> FALSE, c |-> c]
           ELSE TagByName([c EXCEPT !.seqs = [k \in DOMAIN c.seqs |->
                                    IF c.seqs[k].name = g
                                    THEN Sequence(g, TRUE) ELSE c.seqs[k]]],
                          Tail(outgroups))

\* lines 117-146: the combined collection and its outgroup flags
PopAssemble ==
  /\ pcPop = "assemble"
  /\ LET ingroup == Container([k \in DOMAIN params.seqsIn |->
                                 Sequence(params.seqsIn[k], FALSE)], params.sites)
     IN  IF params.ingroupFile
         THEN /\ psc' = IF params.outgroupFile
                        THEN [ingroup EXCEPT !.seqs = ingroup.seqs \o
                                [k \in DOMAIN params.seqsOut |->
                                   Sequence(params.seqsOut[k], TRUE)]]
                        ELSE ingroup
              /\ pcPop' = "stopCodons"
              /\ UNCHANGED <<cLog, console, popExit>>
         ELSE LET byIndex == TagByIndex(ingroup, params.outgroupIndex)
                  byName  == TagByName(byIndex.c, params.outgroupName)
              IN  IF ~byIndex.ok
                  THEN /\ PopThrow("IndexOutOfBoundsException") /\ psc' = ingroup
                  ELSE IF ~byName.ok
                  THEN /\ PopThrow("SequenceNotFoundException") /\ psc' = byIndex.c
                  ELSE /\ psc' = byName.c
                       /\ pcPop' = "stopCodons"
                       /\ UNCHANGED <<cLog, console, popExit>>
  /\ UNCHANGED <<params, logFile, toolCounter, codonAlphabet, gCode, pscIn, pscOut,
                 actions, calls, outFiles>>
  /\ UNCHANGED genVars

ErrStopPolicy == "Unrecognized option for input.sequence.stop_codons_policy"

\* lines 155, 163: *gCode with gCode empty, handed to a library routine for codon
\* sites. Undefined behaviour: the process faults, or the routine refuses the
\* alphabet with an exception before it touches the genetic code
NullGeneticCode ==
  \E o \in {"fault", "exception"} :
    IF o = "fault" THEN PopFault ELSE PopThrow("AlphabetException")

LastHasStopOrFirst(q) == q # <<>> /\ (q[Len(q)].stop \/ q[1].stop)

\* line 155: CodonSiteTools::hasStop(psc->getSite(psc->getNumberOfSites() - 1), *gCode)
LastHasStop(q) == q[Len(q)].stop

\* lines 148-172: input.sequence.stop_codons_policy
PopStopCodons ==
  /\ pcPop = "stopCodons"
  /\ LET opt == params.stopCodons
         n   == Len(psc.sites)
         all == SelectSeq(psc.sites, HasNoStop)
     IN  IF opt = "Keep"
         THEN /\ pcPop' = "split"
              /\ UNCHANGED <<psc, cLog, console, popExit>>
         ELSE IF opt = "RemoveIfLast"
         THEN IF ~gCode
              THEN NullGeneticCode /\ UNCHANGED psc          \* *gCode with gCode empty
              ELSE IF n = 0
              THEN PopThrow("IndexOutOfBoundsException") /\ UNCHANGED psc
              ELSE IF LastHasStop(psc.sites)
              THEN /\ psc' = [psc EXCEPT !.sites = SubSeq(psc.sites, 1, n - 1)]
                   /\ console' = Append(console, ConsoleLine("",
                        <<"Info: last site contained a stop codon and was discarded.">>))
                   /\ cLog' = IF logFile # "none"
                              THEN Append(cLog, CommentLine(
                                "Info: last site contained a stop codon and was discarded."))
                              ELSE cLog
                   /\ pcPop' = "split"
                   /\ UNCHANGED popExit
              ELSE /\ pcPop' = "split"
                   /\ UNCHANGED <<psc, cLog, console, popExit>>
         ELSE IF opt = "RemoveAll"
         THEN IF ~gCode
              THEN NullGeneticCode /\ UNCHANGED psc          \* *gCode with gCode empty
              ELSE /\ psc' = [psc EXCEPT !.sites = all]
                   /\ IF Len(all) # n
                      THEN /\ console' = Append(console, ConsoleLine("Info: discarded",
                                                  ToString(n - Len(all))))
                           /\ cLog' = IF logFile # "none"
                                      THEN Append(cLog, InfoLine(ToString(n - Len(all))))
                                      ELSE cLog
                      ELSE UNCHANGED <<cLog, console>>
                   /\ pcPop' = "split"
                   /\ UNCHANGED popExit
         ELSE PopThrow(ErrStopPolicy) /\ UNCHANGED psc
  /\ UNCHANGED <<params, logFile, toolCounter, codonAlphabet, gCode, pscIn, pscOut,
                 actions, calls, outFiles>>
  /\ UNCHANGED genVars

\* lines 174-189: the ingroup and outgroup views
PopSplit ==
  /\ pcPop = "split"
  /\ IF HasOutgroup(psc)
     THEN /\ pscIn' = ExtractIngroup(psc)
          /\ pscOut' = ExtractOutgroup(psc)
          /\ UNCHANGED psc
     ELSE /\ pscIn' = psc                      \* pscIn = std::move(psc)
          /\ psc' = NullContainer
          /\ UNCHANGED pscOut
  /\ console' = console \o
       << ConsoleLine("Number of sequences in ingroup", ToString(Len(pscIn'.seqs))),
          ConsoleLine("Number of sequences in outgroup",
                      ToString(IF pscOut'.null THEN 0 ELSE Len(pscOut'.seqs))) >>
  /\ pcPop' = "actions"
  /\ UNCHANGED <<params, logFile, cLog, toolCounter, codonAlphabet, gCode, actions,
                 calls, outFiles, popExit>>
  /\ UNCHANGED genVars

-----------------------------------------------------------------------------
(* bppPopStats: the actions of pop.stats *)

ErrPositionsCodon ==
  "Error: synonymous and non-synonymous positions can only be defined with a codon alphabet."
ErrPositions == "Unrecognized option for argument 'positions'"
ErrPiNPiS == "PiN_PiS can only be used with a codon alignment. Check the input alphabet!"
ErrMKTCodon ==
  "MacDonald-Kreitman test can only be performed on a codon alignment. Check the input alphabet!"
ErrMKTOutgroup == "MacDonald-Kreitman test requires at least one outgroup sequence."
ErrCSSCodon ==
  "CodonSiteStatstics can only be used with a codon alignment. Check the input alphabet!"
ErrCSSOutput == "You must specify an ouptut file for CodonSiteStatistics"
ErrUnknown == "Unknown operation"

\* lines 201-213
SiteFrequencies(count) ==
  LET s == NumberOfPolymorphicSites(pscIn)
  IN  PopResult(<<"numberOfPolymorphicSites", "numberOfSingletons">>,
                << ConsoleLine("Number of segregating sites:", ToString(s)),
                   ConsoleLine("Number of singletons:", <<"nsg">>) >>,
                << CommentLine("Site frequencies"),
                   VarLine(LogVar("NbSegSites", count), ToString(s)),
                   VarLine(LogVar("NbSingl", count), <<"nsg">>) >>)

\* lines 218-227
Watterson75(count) ==
  PopResult(<<"watterson75">>,
            << ConsoleLine("Watterson's (1975) theta:", <<"thetaW75">>) >>,
            << CommentLine("Watterson's (1975) theta"),
               VarLine(LogVar("thetaW75", count), <<"thetaW75">>) >>)

\* lines 232-241
Tajima83(count) ==
  PopResult(<<"tajima83">>,
            << ConsoleLine("Tajima's (1983) pi:", <<"piT83">>) >>,
            << CommentLine("Tajima's (1983) pi"),
               VarLine(LogVar("piT83", count), <<"piT83">>) >>)

AlwaysPolymorphic(pscTmp) == TRUE

\* line 260: SequenceStatistics::numberOfPolymorphicSites(*pscTmp) > 0
HasPolymorphicSites(pscTmp) == NumberOfPolymorphicSites(pscTmp) > 0

\* lines 252-257: the sites the restriction selects
TajimaDSites(posArg) ==
  IF posArg = "synonymous" THEN GetSynonymousSites(pscIn)
  ELSE IF posArg = "non-synonymous" THEN GetNonSynonymousSites(pscIn)
  ELSE pscIn

\* lines 246-276
TajimaD(count, posArg) ==
  IF posArg \in {"synonymous", "non-synonymous"} /\ ~codonAlphabet
  THEN PopThrow(ErrPositionsCodon)
  ELSE IF posArg \notin {"synonymous", "non-synonymous", "all"}
  THEN PopThrow(ErrPositions)
  ELSE LET pscTmp == TajimaDSites(posArg)
       IN  IF HasPolymorphicSites(pscTmp)
           THEN PopResult(<<"numberOfPolymorphicSites", "tajimaDss">>,
                          << ConsoleLine("Tajima's (1989) D:", <<"tajimaD">>) >>,
                          << CommentLine("Tajima's (1989) D (" \o posArg \o " sites)"),
                             VarLine(LogVar("tajD", count), <<"tajimaD">>) >>)
           ELSE PopResult(<<"numberOfPolymorphicSites">>,
                          << ConsoleLine("Tajima's (1989) D:", <<"NA (0 polymorphic sites)">>) >>,
                          << CommentLine("Tajima's (1989) D (" \o posArg \o " sites)"),
                             VarLine(LogVar("tajD", count), <<"NA">>) >>)

\* lines 281-295
FuAndLiDStar(count, useTotMut) ==
  PopResult(<<"fuLiDStar">>,
            << ConsoleLine("Fu and Li's (1993) D*:", <<"flDstar">>),
               ConsoleLine("  computed using",
                           <<IF useTotMut THEN "total number of mutations"
                                          ELSE "number of segregating sites">>) >>,
            << CommentLine("Fu and Li's (1993) D*"),
               VarLine(LogVar(IF useTotMut THEN "fuLiDstarTotMut" ELSE "fuLiDstarSegSit",
                              count), <<"flDstar">>) >>)

\* lines 300-314
FuAndLiFStar(count, useTotMut) ==
  PopResult(<<"fuLiFStar">>,
            << ConsoleLine("Fu and Li (1993)'s F*:", <<"flFstar">>),
               ConsoleLine("  computed using",
                           <<IF useTotMut THEN "total number of mutations"
                                          ELSE "number of segregating sites">>) >>,
            << CommentLine("Fu and Li's (1993) F*"),
               VarLine(LogVar(IF useTotMut THEN "fuLiFstarTotMut" ELSE "fuLiFstarSegSit",
                              count), <<"flFstar">>) >>)

CodonCheckSkipped(isCodon) == FALSE

\* lines 321, 348, 371: if (!codonAlphabet) throw
NotCodon(isCodon) == ~isCodon

\* lines 319-341
PiN_PiS(count) ==
  IF NotCodon(codonAlphabet)
  THEN PopThrow(ErrPiNPiS)
  ELSE PopResult(<<"piSynonymous", "piNonSynonymous", "meanNumberOfSynonymousSites",
                   "meanNumberOfNonSynonymousSites">>,
                 << ConsoleLine("PiN:", <<"piN">>), ConsoleLine("PiS:", <<"piS">>),
                    ConsoleLine("#N:", <<"nbN">>), ConsoleLine("#S:", <<"nbS">>),
                    ConsoleLine("PiN / PiS (corrected for #N and #S):", <<"r">>) >>,
                 << CommentLine("PiN and PiS"),
                    VarLine(LogVar("PiN", count), <<"piN">>),
                    VarLine(LogVar("PiS", count), <<"piS">>),
                    VarLine(LogVar("NbN", count), <<"nbN">>),
                    VarLine(LogVar("NbS", count), <<"nbS">>) >>)

OutgroupCheckSkipped(out) == FALSE

\* line 351: if (!pscOut.get()) throw
NoOutgroupView(out) == out.null

\* lines 346-364
MKT(count) ==
  IF NotCodon(codonAlphabet)
  THEN PopThrow(ErrMKTCodon)
  ELSE IF NoOutgroupView(pscOut)
  THEN PopThrow(ErrMKTOutgroup)
  ELSE PopResult(<<"mkTable">>,
                 << ConsoleLine("MK table, Pa:", <<"mktable[0]">>),
                    ConsoleLine("MK table, Ps:", <<"mktable[1]">>),
                    ConsoleLine("MK table, Da:", <<"mktable[2]">>),
                    ConsoleLine("MK table, Ds:", <<"mktable[3]">>) >>,
                 << CommentLine("MK table"),
                    CommentLine("Pa Ps Da Ds"),
                    VarLine(LogVar("MKtable", count),
                            <<"mktable[0]", "mktable[1]", "mktable[2]", "mktable[3]">>) >>)

\* the file CodonSiteStatistics writes: its header and the number of its site rows
\* with their number of fields (complete: the header and every row were written)
SiteFile(path, header, rows, fields, complete) ==
  [path |-> path, header |-> header, rows |-> rows, fields |-> fields,
   complete |-> complete]

\* lines 378-383: the header, with the outgroup column or without
SiteHeader(outgroup) ==
  <<"Site", "IsComplete", "NbAlleles", "MinorAlleleFrequency", "MajorAlleleFrequency",
    "MinorAllele", "MajorAllele">>
  \o (IF outgroup THEN <<"OutgroupAllele">> ELSE <<>>)
  \o <<"MeanNumberSynPos", "IsSynPoly", "Is4Degenerated", "PiN", "PiS">>

\* lines 387-401: the number of fields of one site row
SiteRowFields(outgroup) == 7 + (IF outgroup THEN 1 ELSE 0) + 5

\* lines 369-403
CodonSiteStatistics(path) ==
  IF NotCodon(codonAlphabet)
  THEN PopThrow(ErrCSSCodon)
  ELSE IF path = "none"
  THEN PopThrow(ErrCSSOutput)
  ELSE IF psc.null
  THEN \* psc->hasOutgroup() through the emptied psc: a fault, or a false read
       \E o \in {"fault", "false"} :
         IF o = "fault"
         THEN /\ PopFault
              /\ outFiles' = Append(outFiles, SiteFile(path, <<>>, 0, 0, FALSE))
         ELSE /\ outFiles' = Append(outFiles, SiteFile(path, SiteHeader(FALSE),
                                Len(pscIn.sites), SiteRowFields(FALSE), TRUE))
              /\ calls' = calls \o <<"CodonSiteTools">>
              /\ console' = Append(console, ConsoleLine("Site statistics output to:", <<path>>))
              /\ pcPop' = "actions"
              /\ UNCHANGED <<cLog, popExit>>
  ELSE LET outgroup == HasOutgroup(psc) /\ Len(pscOut.seqs) = 1
       IN  /\ outFiles' = Append(outFiles, SiteFile(path, SiteHeader(outgroup),
                                 Len(pscIn.sites), SiteRowFields(outgroup), TRUE))
           /\ calls' = calls \o <<"CodonSiteTools">>
           /\ console' = Append(console, ConsoleLine("Site statistics output to:", <<path>>))
           /\ pcPop' = "actions"
           /\ UNCHANGED <<cLog, popExit>>

\* lines 191-406: one turn of the loop over the actions, on token tok
PopAction ==
  /\ pcPop = "actions"
  /\ Len(actions) < MaxActions
  /\ \E tok \in Tokens :
       LET cmdName == tok.cmdName
           count   == toolCounter[cmdName] + 1
       IN  /\ actions' = Append(actions, tok)
           /\ toolCounter' = [toolCounter EXCEPT ![cmdName] = count]
           /\ IF cmdName = "SiteFrequencies" THEN SiteFrequencies(count)
              ELSE IF cmdName = "Watterson75" THEN Watterson75(count)
              ELSE IF cmdName = "Tajima83" THEN Tajima83(count)
              ELSE IF cmdName = "TajimaD" THEN TajimaD(count, tok.positions)
              ELSE IF cmdName = "FuAndLiDStar" THEN FuAndLiDStar(count, tok.tot_mut)
              ELSE IF cmdName = "FuAndLiFStar" THEN FuAndLiFStar(count, tok.tot_mut)
              ELSE IF cmdName = "PiN_PiS" THEN PiN_PiS(count)
              ELSE IF cmdName = "MKT" THEN MKT(count)
              ELSE IF cmdName = "CodonSiteStatistics" THEN CodonSiteStatistics(tok.outputFile)
              ELSE PopThrow(ErrUnknown)
  /\ UNCHANGED <<params, logFile, codonAlphabet, gCode, psc, pscIn, pscOut>>
  /\ UNCHANGED genVars

\* lines 409, 419: the loop is over, bpppopstats.done(), return 0
PopDone ==
  /\ pcPop = "actions"
  /\ popExit' = 0
  /\ pcPop' = "exit"
  /\ UNCHANGED <<params, logFile, cLog, console, toolCounter, codonAlphabet, gCode,
                 psc, pscIn, pscOut, actions, calls, outFiles>>
  /\ UNCHANGED genVars

-----------------------------------------------------------------------------
(* Specifications *)

\* bppPopStats has not run
PopIdle ==
  /\ PopInitial
  /\ params = Params("DNA", "none", FALSE, <<>>, FALSE, <<>>, <<>>, <<>>, <<>>, "Keep")

\* bppSeqGen has not run
GenIdle == GenInitial

InitGen == GenInitial /\ PopIdle

NextGen ==
  \/ GenStart
  \/ GenReadLine
  \/ GenReadEnd
  \/ GenContLine
  \/ GenContEnd
  \/ GenContEof
  \/ GenReadTreesReturn
  \/ GenModel
  \/ GenSimulateFirst
  \/ GenDeleteFirst
  \/ GenSimulateNext
  \/ GenMerge
  \/ GenLoopEnd
  \/ GenWrite

\* bppSeqGen
SpecGen == InitGen /\ [][NextGen]_vars

InitPop == PopInitial /\ GenIdle /\ params \in DispatchParams

NextPop ==
  \/ PopStart
  \/ PopAssemble
  \/ PopStopCodons
  \/ PopSplit
  \/ PopAction
  \/ PopDone

\* bppPopStats, the action dispatcher on the inputs DispatchParams
SpecPop == InitPop /\ [][NextPop]_vars

InitAssemble == PopInitial /\ GenIdle /\ params \in AssembleParams

\* the runs with an empty pop.stats list
NextAssemble ==
  \/ PopStart
  \/ PopAssemble
  \/ PopStopCodons
  \/ PopSplit
  \/ PopDone

\* bppPopStats, the assembler and the split on the inputs AssembleParams
SpecAssemble == InitAssemble /\ [][NextAssemble]_vars

InitStop == PopInitial /\ GenIdle /\ params \in StopParams

\* bppPopStats, the stop-codon policies on the inputs StopParams
SpecStop == InitStop /\ [][NextPop]_vars

-----------------------------------------------------------------------------
(* Properties of readTrees (SpecGen) *)

ReadTreesErrors == {ErrNoBegin, ErrNoEnd, ErrIncomplete, ErrLeaves, ErrSegments}

\* readTrees has returned to main without an exception
LoadedMultiple ==
  /\ inputTrees = "multiple"
  /\ pcGen \notin {"start", "readTrees", "readTreesCont"}
  /\ what \notin ReadTreesErrors

\* the single tree has been loaded
LoadedSingle == inputTrees = "single" /\ pcGen # "start"

\* a physical line that starts a segment entry: "<begin> <end> ..."
IsSegmentLine(l) ==
  /\ Len(l) >= 4
  /\ l[1] \in NumText /\ l[2] \in WhiteSpace
  /\ l[3] \in NumText /\ l[4] \in WhiteSpace

SegmentLines(f) == SelectSeq(f, IsSegmentLine)

\* the value of a number text, in units of 1/Den
Value(text) == IF text = "0" THEN 0 ELSE IF text = "0.5" THEN 1 ELSE 2

\* some segment line's begin differs from the end of the segment line before it
\* (from 0 for the first one)
HasSegmentMismatch(f) ==
  LET sl == SegmentLines(f)
  IN  \E k \in DOMAIN sl :
        Value(sl[k][1]) # (IF k = 1 THEN 0 ELSE Value(sl[k - 1][3]))

\* C3 as stated: a file with a mismatching segment line ends the run with the
\* segment-mismatch error.
C3_MismatchGivesSegmentError ==
  (HasSegmentMismatch(file) /\ pcGen = "exit") => (exitCode = -1 /\ what = ErrSegments)

\* C3 (amended): a file with a mismatching segment line is never loaded: the
\* run ends with status -1 and one of readTrees' errors; the error is the
\* segment-mismatch error whenever every segment line read gave a tree (no
\* earlier parse or leaf-name error came first).
C3_MismatchNeverLoads ==
  HasSegmentMismatch(file) =>
    \/ pcGen = "readTreesCont"
    \/ /\ pcGen = "exit" /\ exitCode = -1
       /\ what \in ReadTreesErrors
       /\ (Len(trees) = Len(SegmentLines(file)) => what = ErrSegments)

\* a second segment line that does not start where the first one ended is refused
\* with the segment-mismatch error
C3_Witness ==
  /\ Len(file) = 2 /\ IsSegmentLine(file[1]) /\ IsSegmentLine(file[2])
  /\ Value(file[1][1]) = 0
  /\ Value(file[2][1]) # Value(file[1][3])
  /\ pcGen = "exit" /\ what = ErrSegments

LeafSet(t) == {t[k] : k \in DOMAIN t}

\* C4: after every successful load all trees have the leaf-name set of the
\* first tree.
C4_SameLeafSets ==
  LoadedMultiple => \A k \in DOMAIN trees : LeafSet(trees[k]) = LeafSet(trees[1])

\* three trees loaded, the leaf names of the last in another order than the first's
C4_Witness ==
  /\ LoadedMultiple
  /\ Len(trees) = 3
  /\ trees[3] # trees[1]

\* C7: an entry whose tree ends on the next physical line is loaded as one
\* tree, as if it had been written on one line: once "<begin> <end> (a," and
\* "b);" have been read (begin 0), the loop is no longer waiting for the ';' and the tree
\* with leaves a, b is in the list.
C7_MultiLineEntryLoaded ==
  (Len(file) = 2 /\ file[1] \in HeadLines /\ file[2] \in TailLines
     /\ Value(file[1][1]) = 0) =>
    (pcGen # "readTreesCont" /\ trees = << <<"a", "b">> >>)

NonDecreasing(pos) == \A k \in 1..(Len(pos) - 1) : pos[k] <= pos[k + 1]

\* C8: after every successful load (of at least one tree) the boundary list has
\* treeCount+1 entries, starts at 0, ends at 1 and is non-decreasing.
C8_BoundariesTile ==
  ((LoadedMultiple \/ LoadedSingle) /\ Len(trees) >= 1) =>
    /\ Len(positions) = Len(trees) + 1
    /\ positions[1] = 0
    /\ positions[Len(positions)] = Den
    /\ NonDecreasing(positions)

-----------------------------------------------------------------------------
(* Properties of the simulation (SpecGen) *)

RECURSIVE TotalSites(_)
TotalSites(blocks) ==
  IF blocks = <<>> THEN 0 ELSE Head(blocks).nsites + TotalSites(Tail(blocks))

RECURSIVE AllRates(_)
AllRates(blocks) ==
  IF blocks = <<>> THEN <<>> ELSE Head(blocks).rates \o AllRates(Tail(blocks))

\* the run wrote an alignment simulated on several segments
WroteMultiSegment ==
  /\ pcGen = "exit" /\ exitCode = 0
  /\ "output.sequence.file" \in written
  /\ Len(trees) > 1

\* the number of sites segment k is to be simulated for
Share(k) == RoundPos(positions[k + 1], nbSites) - RoundPos(positions[k], nbSites)

\* C9: without a rate file, with boundaries from 0 to 1, segment k is simulated
\* on tree k for round(pos[k+1]*n) - round(pos[k]*n) sites, the segments are
\* concatenated in order and the alignment written has n sites.
C9_SitesPartition ==
  (infosFile = "none" /\ Len(trees) > 1
     /\ positions[1] = 0 /\ positions[Len(positions)] = Den) =>
    /\ \A k \in DOMAIN tmpCont1 :
         tmpCont1[k].tree = k /\ tmpCont1[k].nsites = Share(k)
    /\ \A k \in DOMAIN tmpCont2 :
         tmpCont2[k].nsites = Share(tmpCont2[k].tree)
    /\ WroteMultiSegment =>
         /\ Len(sites) = Len(trees)
         /\ \A k \in DOMAIN sites :
              sites[k].tree = k /\ sites[k].nsites = Share(k)
         /\ TotalSites(sites) = nbSites

\* C10: with a rate file of n rows and boundaries tiling [0,1], every row is
\* used for exactly one column, in row order.
C10_EveryRateUsedOnce ==
  (WroteMultiSegment /\ infosFile # "none"
     /\ positions[1] = 0 /\ positions[Len(positions)] = Den
     /\ NonDecreasing(positions)) =>
    /\ AllRates(sites) = [k \in 1..nbSites |-> k]
    /\ TotalSites(sites) = nbSites

-----------------------------------------------------------------------------
(* Properties of the action dispatcher (SpecPop) *)

Last(q) == q[Len(q)]

\* the lines a step appends to a sequence
Appended(old, new) == SubSeq(new, Len(old) + 1, Len(new))

CountOf(q, x) == Cardinality({k \in DOMAIN q : q[k] = x})

\* a step of the loop that dispatches a token of command name n
Dispatches(n) ==
  /\ pcPop = "actions"
  /\ Len(actions') = Len(actions) + 1
  /\ Last(actions').cmdName = n

\* the polymorphic sites of the ingroup that a 'positions' value selects
PolymorphicUnder(posArg) ==
  { k \in DOMAIN pscIn.sites :
      /\ pscIn.sites[k].poly
      /\ \/ posArg = "all"
         \/ posArg = "synonymous" /\ pscIn.sites[k].syn
         \/ posArg = "non-synonymous" /\ ~pscIn.sites[k].syn }

\* C1: TajimaD on an accepted 'positions' value: with no polymorphic site in
\* the selected set the estimator is not called, no error is raised and NA is
\* reported (console, and "tajD<suffix> = NA" in the log); with at least one
\* the estimator is called once and its value is reported.
C1_TajimaD ==
  [][ (/\ Dispatches("TajimaD")
       /\ Last(actions').positions \in {"all", "synonymous", "non-synonymous"}
       /\ (Last(actions').positions = "all" \/ codonAlphabet))
      =>
      LET posArg  == Last(actions').positions
          logged  == Appended(cLog, cLog')
      IN  /\ pcPop' = "actions" /\ popExit' = popExit
          /\ Len(console') = Len(console) + 1
          /\ logFile = "none" => logged = <<>>
          /\ logFile # "none" =>
               /\ Len(logged) = 2
               /\ logged[2].kind = "var" /\ logged[2].name[1] = "tajD"
          /\ IF PolymorphicUnder(posArg) = {}
             THEN /\ CountOf(calls', "tajimaDss") = CountOf(calls, "tajimaDss")
                  /\ Last(console').value = <<"NA (0 polymorphic sites)">>
                  /\ logFile # "none" => logged[2].value = <<"NA">>
             ELSE /\ CountOf(calls', "tajimaDss") = CountOf(calls, "tajimaDss") + 1
                  /\ Last(console').value = <<"tajimaD">>
                  /\ logFile # "none" => logged[2].value = <<"tajimaD">>
    ]_vars

\* TajimaD(positions=synonymous) on an ingroup whose only polymorphic site is
\* non-synonymous: NA is logged and the estimator was not called
C1_Witness ==
  /\ Len(actions) = 1
  /\ actions[1].cmdName = "TajimaD" /\ actions[1].positions = "synonymous"
  /\ NumberOfPolymorphicSites(pscIn) = 1
  /\ logFile # "none"
  /\ Len(cLog) = 2 /\ cLog[2] = VarLine(<<"tajD">>, <<"NA">>)
  /\ CountOf(calls, "tajimaDss") = 0
  /\ pcPop = "actions"

\* the base names of the log variables each command writes
LogNames(n) ==
  IF n = "SiteFrequencies" THEN {"NbSegSites", "NbSingl"}
  ELSE IF n = "Watterson75" THEN {"thetaW75"}
  ELSE IF n = "Tajima83" THEN {"piT83"}
  ELSE IF n = "TajimaD" THEN {"tajD"}
  ELSE IF n = "FuAndLiDStar" THEN {"fuLiDstarTotMut", "fuLiDstarSegSit"}
  ELSE IF n = "FuAndLiFStar" THEN {"fuLiFstarTotMut", "fuLiFstarSegSit"}
  ELSE IF n = "PiN_PiS" THEN {"PiN", "PiS", "NbN", "NbS"}
  ELSE IF n = "MKT" THEN {"MKtable"}
  ELSE {}

VarNames(log) == {log[k].name : k \in {j \in DOMAIN log : log[j].kind = "var"}}

NbVarLines(log) == Cardinality({j \in DOMAIN log : log[j].kind = "var"})

\* C2: the k-th occurrence of a command name writes its log variables with no
\* suffix for k = 1 and with the decimal suffix k for k >= 2, and no log
\* variable name is written twice in a run.
C2_LogNames ==
  [][ \A n \in CmdNames :
        Dispatches(n) =>
          LET k      == Cardinality({j \in DOMAIN actions' : actions'[j].cmdName = n})
              logged == Appended(cLog, cLog')
          IN  /\ \A j \in DOMAIN logged :
                   logged[j].kind = "var" =>
                     /\ logged[j].name[1] \in LogNames(n)
                     /\ Tail(logged[j].name) = (IF k >= 2 THEN ToString(k) ELSE <<>>)
              /\ (pcPop' = "actions" /\ logFile # "none" /\ LogNames(n) # {}) =>
                   \E j \in DOMAIN logged : logged[j].kind = "var"
              /\ Cardinality(VarNames(cLog')) = NbVarLines(cLog')
    ]_vars

\* the second TajimaD of a run, with other keyword arguments than the first, has
\* written tajD2
C2_Witness ==
  /\ Len(actions) = 2
  /\ actions[1].cmdName = "TajimaD" /\ actions[2].cmdName = "TajimaD"
  /\ actions[1].positions # actions[2].positions
  /\ \E j \in DOMAIN cLog : cLog[j].kind = "var" /\ cLog[j].name = <<"tajD", "2">>
  /\ \E j \in DOMAIN cLog : cLog[j].kind = "var" /\ cLog[j].name = <<"tajD">>

\* C5: on an alphabet that is not a codon alphabet, PiN_PiS, MKT and
\* CodonSiteStatistics fail before any estimator is called and before any
\* result line or output file is written; the run ends with status 1 and no
\* later action is executed.
C5_CodonOnly ==
  [][ /\ pcPop # "exit"
      /\ \A n \in {"PiN_PiS", "MKT", "CodonSiteStatistics"} :
           (Dispatches(n) /\ ~codonAlphabet) =>
             /\ calls' = calls
             /\ outFiles' = outFiles
             /\ cLog' = (IF logFile # "none"
                         THEN Append(cLog, Last(cLog')) ELSE cLog)
             /\ logFile # "none" => (Last(cLog').kind = "comment"
                                      /\ Last(cLog').value[1] = "Error:")
             /\ popExit' = 1
             /\ pcPop' = "exit"
    ]_vars

\* MKT asked as second action on a DNA alignment: the run has ended with status
\* 1 and only the estimator of the first action was called
C5_Witness ==
  /\ ~codonAlphabet
  /\ Len(actions) = 2
  /\ actions[1].cmdName = "Watterson75" /\ actions[2].cmdName = "MKT"
  /\ calls = <<"watterson75">>
  /\ pcPop = "exit" /\ popExit = 1

\* the names of the sequences the input tags as outgroup
TaggedNames ==
  IF params.ingroupFile
  THEN IF params.outgroupFile
       THEN {params.seqsOut[k] : k \in DOMAIN params.seqsOut}
       ELSE {}
  ELSE {params.seqsIn[g] : g \in {params.outgroupIndex[k] : k \in DOMAIN params.outgroupIndex}
                                   \cap DOMAIN params.seqsIn}
       \cup {params.outgroupName[k] : k \in DOMAIN params.outgroupName}

\* C6: MKT on a codon alphabet fails, without computing the table, when no
\* sequence is tagged as outgroup; otherwise it computes the table from the
\* ingroup and outgroup views and reports Pa, Ps, Da, Ds in this order.
C6_MKT ==
  [][ (Dispatches("MKT") /\ codonAlphabet) =>
        IF TaggedNames = {}
        THEN /\ calls' = calls
             /\ popExit' = 1 /\ pcPop' = "exit"
             /\ Last(console').value = <<ErrMKTOutgroup>>
        ELSE /\ calls' = Append(calls, "mkTable")
             /\ pcPop' = "actions" /\ popExit' = popExit
             /\ {pscOut.seqs[k].name : k \in DOMAIN pscOut.seqs} = TaggedNames
             /\ \A k \in DOMAIN pscIn.seqs : pscIn.seqs[k].name \notin TaggedNames
             /\ Appended(console, console') =
                  << ConsoleLine("MK table, Pa:", <<"mktable[0]">>),
                     ConsoleLine("MK table, Ps:", <<"mktable[1]">>),
                     ConsoleLine("MK table, Da:", <<"mktable[2]">>),
                     ConsoleLine("MK table, Ds:", <<"mktable[3]">>) >>
             /\ logFile # "none" =>
                  Last(cLog').value =
                    <<"mktable[0]", "mktable[1]", "mktable[2]", "mktable[3]">>
    ]_vars

\* MKT on a codon alignment whose outgroup is given by the index list: the table
\* was computed and logged
C6_Witness ==
  /\ codonAlphabet
  /\ params.outgroupIndex # <<>>
  /\ Len(actions) = 1 /\ actions[1].cmdName = "MKT"
  /\ calls = <<"mkTable">>
  /\ logFile # "none" /\ Last(cLog).name = <<"MKtable">>

-----------------------------------------------------------------------------
(* Properties of CodonSiteStatistics and of the run as a whole (SpecPop) *)

\* the last token dispatched is CodonSiteStatistics with an output file, on a
\* codon alignment
LastIsSiteStatistics ==
  /\ codonAlphabet
  /\ actions # <<>>
  /\ Last(actions).cmdName = "CodonSiteStatistics"
  /\ Last(actions).outputFile # "none"

\* C11: CodonSiteStatistics on a codon alignment with an output path completes,
\* with or without an outgroup, and writes one header row and one row per
\* ingroup site, each with as many fields as the header; the OutgroupAllele
\* column is there exactly when the outgroup view holds one sequence.
C11_SiteFile ==
  LastIsSiteStatistics =>
    LET og == ~pscOut.null /\ Len(pscOut.seqs) = 1
    IN  /\ popExit \in {-2, 0}
        /\ outFiles # <<>>
        /\ Last(outFiles).path = Last(actions).outputFile
        /\ Last(outFiles).complete
        /\ Last(outFiles).header = SiteHeader(og)
        /\ ("OutgroupAllele" \in {Last(outFiles).header[k] :
                                    k \in DOMAIN Last(outFiles).header}) = og
        /\ Last(outFiles).rows = Len(pscIn.sites)
        /\ Last(outFiles).fields = Len(Last(outFiles).header)

\* the "# ..." heading each token writes first to the log ("" for none)
Heading(tok) ==
  LET n == tok.cmdName
  IN  IF n = "SiteFrequencies" THEN "Site frequencies"
      ELSE IF n = "Watterson75" THEN "Watterson's (1975) theta"
      ELSE IF n = "Tajima83" THEN "Tajima's (1983) pi"
      ELSE IF n = "TajimaD" THEN "Tajima's (1989) D (" \o tok.positions \o " sites)"
      ELSE IF n = "FuAndLiDStar" THEN "Fu and Li's (1993) D*"
      ELSE IF n = "FuAndLiFStar" THEN "Fu and Li's (1993) F*"
      ELSE IF n = "PiN_PiS" THEN "PiN and PiS"
      ELSE IF n = "MKT" THEN "MK table"
      ELSE ""

WritesHeading(tok) == Heading(tok) # ""

IsHeadingLine(l) ==
  /\ l.kind = "comment" /\ Len(l.value) = 1
  /\ l.value[1] \in {Heading(t) : t \in Tokens} \ {""}

\* the headings of a log, in the order they were written
HeadingsIn(log) ==
  LET hs == SelectSeq(log, IsHeadingLine) IN [k \in DOMAIN hs |-> hs[k].value[1]]

\* the headings a list of tokens writes, in list order
HeadingsOf(toks) ==
  LET ts == SelectSeq(toks, WritesHeading) IN [k \in DOMAIN ts |-> Heading(ts[k])]

\* C12: when the token at place j has an unknown command name, the actions
\* before j have been executed in list order and have written their log lines,
\* the token raises the unknown-operation error: no estimator is called and no
\* file written for it, the message goes to the console, '# Error: <message>'
\* is the last line of the log when one is configured, the exit status is 1,
\* and no action is executed afterwards (no step leaves the exit).
C12_UnknownAborts ==
  [][ /\ pcPop # "exit"
      /\ Dispatches("Foo") =>
           /\ Len(calls) >= Len(actions) - CountOf(
                  [k \in DOMAIN actions |-> actions[k].cmdName], "CodonSiteStatistics")
           /\ logFile # "none" => HeadingsIn(cLog) = HeadingsOf(actions)
           /\ calls' = calls /\ outFiles' = outFiles
           /\ console' = Append(console, ConsoleLine("", <<ErrUnknown>>))
           /\ cLog' = (IF logFile # "none"
                       THEN Append(cLog, [kind |-> "comment", name |-> <<>>,
                                          value |-> <<"Error:", ErrUnknown>>])
                       ELSE cLog)
           /\ popExit' = 1
           /\ pcPop' = "exit"
    ]_vars

\* Watterson75 then an unknown command, with a log file: Watterson's lines are in
\* the log, followed by the error line, and the run has ended with status 1
C12_Witness ==
  /\ Len(actions) = 2
  /\ actions[1].cmdName = "Watterson75" /\ actions[2].cmdName = "Foo"
  /\ logFile # "none"
  /\ Len(cLog) = 3
  /\ cLog[2] = VarLine(<<"thetaW75">>, <<"thetaW75">>)
  /\ cLog[3].value = <<"Error:", ErrUnknown>>
  /\ Last(console).value = <<ErrUnknown>>
  /\ pcPop = "exit" /\ popExit = 1

-----------------------------------------------------------------------------
(* Properties of main of bppSeqGen (SpecGen) *)

\* nothing has been built, simulated or written
NothingCreated ==
  /\ modelSet = "NULL" /\ seqsim = {}
  /\ tmpCont1 = <<>> /\ tmpCont2 = <<>> /\ sites = <<>>
  /\ written = {}

\* C13: with more than one segment, 'one_per_branch' and 'general' end the run
\* with an error and status -1 before any model, simulator or output exists;
\* 'no' goes on to the simulation with any number (>= 1) of segments; any
\* other value ends the run with the unknown-option error.
C13_NonHomogeneous ==
  [][ pcGen = "model" =>
        /\ (nhOpt' \in {"one_per_branch", "general"} /\ Len(trees) > 1) =>
             /\ pcGen' = "exit" /\ exitCode' = -1 /\ what' = ErrMultipleNH
             /\ NothingCreated'
        /\ (nhOpt' = "no" /\ Len(trees) >= 1) =>
             /\ pcGen' = "simulate" /\ exitCode' = -2 /\ what' = ""
             /\ modelSet' = "no"
        /\ nhOpt' \notin {"no", "one_per_branch", "general"} =>
             /\ pcGen' = "exit" /\ exitCode' = -1 /\ what' = ErrNhOpt
             /\ NothingCreated'
    ]_vars

\* three segments with nonhomogeneous=general: the run has ended with the error
C13_Witness ==
  /\ Len(trees) = 3 /\ nhOpt = "general"
  /\ pcGen = "exit" /\ exitCode = -1 /\ what = ErrMultipleNH
  /\ NothingCreated

-----------------------------------------------------------------------------
(* Properties of the stop-codon policies (SpecStop) *)

DiscardLast == "Info: last site contained a stop codon and was discarded."

\* C14: Keep leaves the alignment as it is; RemoveIfLast removes the last column
\* when it holds a stop codon, and otherwise removes nothing and writes no
\* discard message, and never removes another column; RemoveAll writes the
\* discard message, with the number of removed columns, exactly when the number
\* of columns decreased; any other value ends the run with an error before any
\* statistic is computed.
C14_StopCodons ==
  [][ pcPop = "stopCodons" =>
        LET n    == Len(psc.sites)
            wrote == Appended(console, console')
            logged == Appended(cLog, cLog')
            pol  == params.stopCodons
        IN  /\ pol = "Keep" =>
                 /\ psc' = psc /\ console' = console /\ cLog' = cLog
                 /\ pcPop' = "split"
            /\ pol = "RemoveIfLast" =>
                 /\ psc'.seqs = psc.seqs
                 /\ psc'.sites \in {psc.sites, SubSeq(psc.sites, 1, n - 1)}
                 /\ (codonAlphabet /\ n > 0 /\ psc.sites[n].stop) =>
                      /\ psc'.sites = SubSeq(psc.sites, 1, n - 1)
                      /\ wrote = <<ConsoleLine("", <<DiscardLast>>)>>
                      /\ logFile # "none" => logged = <<CommentLine(DiscardLast)>>
                      /\ pcPop' = "split"
                 /\ (codonAlphabet /\ n > 0 /\ ~psc.sites[n].stop) =>
                      /\ psc' = psc /\ console' = console /\ cLog' = cLog
                      /\ pcPop' = "split"
                 /\ Len(psc'.sites) = n =>
                      /\ \A k \in DOMAIN wrote : wrote[k].value # <<DiscardLast>>
                      /\ \A k \in DOMAIN logged : logged[k] # CommentLine(DiscardLast)
            /\ pol = "RemoveAll" =>
                 LET removed == n - Len(psc'.sites)
                     told    == \E k \in DOMAIN wrote : wrote[k].label = "Info: discarded"
                     noted   == \E k \in DOMAIN logged :
                                  /\ logged[k].kind = "comment"
                                  /\ logged[k].value[1] = "Info: discarded"
                 IN  /\ psc'.seqs = psc.seqs
                     /\ removed >= 0
                     /\ codonAlphabet =>
                          /\ \A k \in DOMAIN psc'.sites : ~psc'.sites[k].stop
                          /\ removed = Cardinality({k \in DOMAIN psc.sites : psc.sites[k].stop})
                          /\ pcPop' = "split"
                     /\ told <=> removed > 0
                     /\ logFile # "none" => (noted <=> removed > 0)
                     /\ told =>
                          wrote = <<ConsoleLine("Info: discarded", ToString(removed))>>
                     /\ noted =>
                          logged = <<[kind |-> "comment", name |-> <<>>,
                                      value |-> <<"Info: discarded">> \o ToString(removed)]>>
            /\ pol \notin {"Keep", "RemoveIfLast", "RemoveAll"} =>
                 /\ pcPop' = "exit" /\ popExit' = 1
                 /\ Last(console').value = <<ErrStopPolicy>>
                 /\ calls' = <<>> /\ actions' = <<>> /\ psc' = psc
    ]_vars

\* RemoveIfLast on a codon alignment of two columns, the first with a stop codon
\* and the last without: both columns are still there and no message was written
C14_Witness ==
  /\ params.stopCodons = "RemoveIfLast" /\ codonAlphabet
  /\ Len(params.sites) = 2 /\ params.sites[1].stop /\ ~params.sites[2].stop
  /\ pcPop = "split"
  /\ psc.sites = params.sites
  /\ cLog = <<>> /\ console = <<>>

-----------------------------------------------------------------------------
(* Properties of the assembler (SpecAssemble) *)

NamesOf(c) == {c.seqs[k].name : k \in DOMAIN c.seqs}

\* the names of the assembled collection, from the input
AssembledNames ==
  {params.seqsIn[k] : k \in DOMAIN params.seqsIn}
  \cup (IF params.ingroupFile /\ params.outgroupFile
        THEN {params.seqsOut[k] : k \in DOMAIN params.seqsOut} ELSE {})

\* the split has been made
SplitDone == pcPop = "actions" \/ (pcPop = "exit" /\ popExit = 0)

\* C15: after the split the outgroup view holds exactly the tagged sequences
\* (those of the outgroup file when the ingroup file parameter is present, the
\* index and name lists being ignored; otherwise those at the listed 1-based
\* positions and those with the listed names), the two views partition the
\* assembled collection, and the outgroup view exists exactly when a sequence
\* is tagged.
C15_Assembly ==
  SplitDone =>
    /\ NamesOf(pscOut) = TaggedNames
    /\ \A k \in DOMAIN pscOut.seqs : pscOut.seqs[k].outgroup
    /\ \A k \in DOMAIN pscIn.seqs : ~pscIn.seqs[k].outgroup
    /\ NamesOf(pscIn) \cup NamesOf(pscOut) = AssembledNames
    /\ NamesOf(pscIn) \cap NamesOf(pscOut) = {}
    /\ Len(pscIn.seqs) + Len(pscOut.seqs) = Cardinality(AssembledNames)
    /\ pscOut.null <=> TaggedNames = {}

\* one alignment file, index list <<1>> and name list <<"s3">>: the outgroup view
\* holds s1 and s3, the ingroup view s2
C15_Witness ==
  /\ ~params.ingroupFile
  /\ params.outgroupIndex = <<1>> /\ params.outgroupName = <<"s3">>
  /\ SplitDone
  /\ NamesOf(pscOut) = {"s1", "s3"} /\ NamesOf(pscIn) = {"s2"}

\* C16: in a multi-segment run at most one simulator is alive at any time; the
\* simulator of a segment is created when no other is alive, is bound to the
\* tree of the segment it simulates, and none is alive when the alignment is
\* assembled and written.
C16_OneSimulator ==
  [][ Len(trees) > 1 =>
        /\ Cardinality(seqsim) <= 1 /\ Cardinality(seqsim') <= 1
        /\ seqsim' \ seqsim # {} => seqsim = {}
        /\ (pcGen = "simulate" /\ pcGen' = "deleteFirst") =>
             /\ seqsim' = {1}
             /\ Len(tmpCont1') = 1 /\ tmpCont1'[1].tree = 1
        /\ (pcGen = "loop" /\ pcGen' = "merge") =>
             /\ seqsim' = {i + 1}
             /\ Len(tmpCont2') = 1 /\ tmpCont2'[1].tree = i + 1
        /\ pcGen' \in {"loop", "write"} => seqsim' = {}
        /\ pcGen = "write" => (seqsim = {} /\ seqsim' = {})
    ]_vars

\* the third of three segments has just been simulated, with a rate file: its
\* simulator is the only one alive
C16_Witness ==
  /\ Len(trees) = 3 /\ infosFile # "none"
  /\ pcGen = "merge" /\ i = 2
  /\ seqsim = {3}
  /\ Len(tmpCont1) = 2 /\ tmpCont2[1].tree = 3

\* the text '<id>_<name>'
IdName(id, name) ==
  <<"0", "1", "2", "3", "4", "5", "6", "7", "8", "9">>[id + 1] \o "_" \o name

\* the leaves of the written tree are those of the tree read, each under the
\* name '<id>_<name>' with an id of its own
TaggedLeavesOf(t, leaves) ==
  /\ Len(leaves) = Len(LeavesNames(t))
  /\ \E ids \in [DOMAIN leaves -> 0..9] :
       /\ \A k \in DOMAIN leaves : leaves[k] = IdName(ids[k], LeavesNames(t)[k])
       /\ \A k, l \in DOMAIN leaves : ids[k] = ids[l] => k = l

\* C18: in 'single' mode with output.tree.path set to a path other than
\* 'none', the step that reads the tree renames each leaf to '<id>_<name>',
\* tags the inner nodes with their id, writes that tree and nothing else, and
\* exits with status 0 with the 'nonhomogeneous' option unread, no model, no
\* simulator and no simulated site; in 'multiple' mode the option is never
\* read, no tree is ever written, and the run goes on to read the tree file.
C18_TaggedTreeExit ==
  [][ /\ (pcGen = "start" /\ inputTrees' = "single" /\ treeWIdPath' # "none") =>
           /\ pcGen' = "exit" /\ exitCode' = 0 /\ what' = ""
           /\ written' = {"output.tree.path"}
           /\ \E t \in TreeTexts : TaggedLeavesOf(t, treeFile'.leaves)
           /\ treeFile'.nodeIds # {}
           /\ trees' = <<treeFile'.leaves>>
           /\ nhOpt' = "" /\ modelSet' = "NULL" /\ seqsim' = {}
           /\ tmpCont1' = <<>> /\ tmpCont2' = <<>> /\ sites' = <<>>
      /\ (pcGen = "start" /\ inputTrees' = "single" /\ treeWIdPath' = "none") =>
           /\ pcGen' = "model" /\ written' = {} /\ treeFile' = NoTree
      /\ (pcGen = "start" /\ inputTrees' = "multiple") =>
           /\ pcGen' = "readTrees" /\ exitCode' = exitCode
      /\ inputTrees' = "multiple" =>
           /\ treeWIdPath' = "" /\ treeFile' = NoTree
           /\ "output.tree.path" \notin written'
      /\ (pcGen = "exit" /\ "output.tree.path" \in written) =>
           UNCHANGED vars
    ]_vars

\* the single tree (a,c) has been written as (0_a,1_c) with its root tagged,
\* and the run has ended with status 0
C18_Witness ==
  /\ inputTrees = "single" /\ treeWIdPath = "path"
  /\ pcGen = "exit" /\ exitCode = 0
  /\ "output.tree.path" \in written
  /\ treeFile = TreeFile(<<"0_a", "1_c">>, {2})

\* the segment about to be simulated in the loop is not counted below zero
NoWrapNext ==
  (pcGen = "loop" /\ i < Len(trees) /\ infosFile = "none") =>
    /\ RoundPos(positions[i + 2], nbSites) >= simPrev
    /\ SegmentSites(positions[i + 2], nbSites, simPrev)
         = RoundPos(positions[i + 2], nbSites) - simPrev

\* the rate slice about to be taken in the loop lies inside the rates
SliceInRangeNext ==
  (pcGen = "loop" /\ i < Len(trees) /\ infosFile # "none") =>
    RateSliceValid(NextSliceStart(simPrev), RoundPos(positions[i + 2], nbSites), nbSites)

\* the first segment: its slice starts at 0 and ends inside the rates
SliceInRangeFirst ==
  (pcGen = "simulate" /\ Len(trees) > 1 /\ infosFile # "none") =>
    RateSliceValid(0, RoundPos(positions[2], nbSites'), nbSites')

\* C19: once readTrees has loaded a tree file, for every site count no segment
\* of either multi-segment loop has its unsigned site count wrapped below zero,
\* and every rate slice satisfies 0 <= start <= end <= n.
C19_SegmentBounds ==
  /\ [](NoWrapNext /\ SliceInRangeNext)
  /\ [][SliceInRangeFirst]_vars

-----------------------------------------------------------------------------
(* Properties of the genetic code (SpecStop) *)

\* the tokens whose action hands the genetic code to an estimator
UsesGeneticCode(tok) ==
  \/ tok.cmdName \in {"PiN_PiS", "MKT", "CodonSiteStatistics"}
  \/ tok.cmdName = "TajimaD" /\ tok.positions \in {"synonymous", "non-synonymous"}

\* the stop-codon policy of the run has been applied or has ended the run
PolicyApplied == pcPop \in {"split", "actions", "exit"}

ReportedError == pcPop = "exit" /\ popExit = 1 /\ console # <<>>

\* C17: the genetic code exists only for a codon alphabet, and on any other
\* alphabet every step that needs it (policies RemoveIfLast and RemoveAll,
\* TajimaD on synonymous or non-synonymous positions, PiN_PiS, MKT,
\* CodonSiteStatistics) ends in a reported error.
C17_GeneticCode ==
  /\ gCode => codonAlphabet
  /\ (~codonAlphabet /\ PolicyApplied
        /\ params.stopCodons \in {"RemoveIfLast", "RemoveAll"}) => ReportedError
  /\ (~codonAlphabet /\ actions # <<>> /\ UsesGeneticCode(Last(actions))) =>
       ReportedError

=============================================================================
